---- MODULE Spec2Model ----
(***************************************************************************)
(* The scale telemetry agent of scalez-sensor: scale_reader.py (one        *)
(* acquisition cycle per process run: connect, read the scale, publish,    *)
(* keep a local copy, disconnect), run again and again by                  *)
(* periodic_commands.py; the connection loop of cloud_control.py; the      *)
(* sampling interval set by set_scale_interval.py, from the command line   *)
(* or through the admin page (adminPage/wifi_manager.py); the start of     *)
(* scale_reader.py and cloud_control.py from their configuration and       *)
(* credential files; BluetoothScale.read_weight; and the measurement       *)
(* files written by two activities at once.                                *)
(*                                                                         *)
(* Strings are sequences of one-character strings.  A Decimal is the       *)
(* record [kind, neg, coef, exp] (value = coef * 10^exp, negated when      *)
(* neg), kind "num", "inf", "nan" or "snan", as decimal.Decimal keeps it.  *)
(***************************************************************************)
EXTENDS Integers, Sequences, FiniteSets, TLC

VARIABLES
    pc,          \* position of scale_reader.main inside the current run
    run,         \* number of the current run of scale_reader (the clock)
    brokerUp,    \* whether the broker answers connect and publish
    outages,     \* how many times the broker went away so far
    attempt,     \* SerialScale.read_weight: its local variable attempt
    lastFrame,   \* SerialScale.read_weight: the raw_data of the last readline
    weights,     \* main: the weight returned by read_weight, or NoDecimal
    inflight,    \* publish_measurement: the message awaiting its PUBACK
    store,       \* /tmp/measurements: file name -> sequence of JSON objects
    acked,       \* timestamps of the messages the broker acknowledged
    acquired,    \* runs in which read_weight returned a reading
    failedPub,   \* runs in which publish_measurement raised
    pubLog,      \* the runs whose measurement was handed to publish, in order
    exitCode,    \* exit status of the last finished run (-1: none yet)
    frame,       \* decoder harness: the frame under decoding
    serialOut,   \* decoder harness: outcome of the serial decoding step
    notifyOut,   \* decoder harness: outcome of handleNotification
    payloadOut,  \* decoder harness: the "weight" member of the message
    cpc,         \* position of CloudControl.run
    sleepSecs,   \* CloudControl.run: the argument of the time.sleep in progress
    streak,      \* reconnect delays slept since the last successful connect
    reconnects,  \* how many reconnect delays were slept so far
    disconnectOk,\* whether the last disconnect of CloudControl.run succeeded
    published,   \* topics of the messages CloudControl.run handed to publish
    intervalCfg, \* /etc/scale-reader/interval.json, or NoInterval
    restartSec,  \* RestartSec of the systemd override file (0: no file)
    request,     \* the last request for a sampling interval
    response,    \* the answer to that request
    requests,    \* how many POSTs of a sampling interval were handled
    program,     \* process start: the program that is started
    argDevice,   \* process start: --device of scale_reader.py, or NoDevice
    config,      \* process start: the program's config.json
    certs,       \* process start: which files exist under CERTS_PATH
    spc,         \* process start: position of the program's main
    session,     \* the MQTT connection object that was built, or NoSession
    verified,    \* whether the three credential files were found to exist
    connectTried,\* scale_reader.main: whether connect() was called
    opened,      \* scale_reader.main: connected and no disconnect called yet
    sensorRead,  \* scale_reader.main: whether read_weight was called
    exitStatus,  \* exit status of the started program (-1: still running)
    btpc,        \* position of BluetoothScale.read_weight
    scans,       \* discover_scale: scans made so far
    btAttempt,   \* read_weight: its loop variable attempt
    peripheral,  \* read_weight: its local variable peripheral
    elapsed,     \* read_weight: half seconds since start_time
    btResult,    \* read_weight: what it returned or raised
    wpc,         \* store writers: where each is in "with open(...) as f"
    wts,         \* store writers: timestamp of the record each is writing
    clock,       \* store writers: timestamps handed out so far
    lastWritten, \* file name -> the object of the last json.dump that ended
    torn,        \* files that were open for writing when the process died
    crashes      \* how many times the process died

vars == <<pc, run, brokerUp, outages, attempt, lastFrame, weights, inflight,
          store, acked, acquired, failedPub, pubLog, exitCode,
          frame, serialOut, notifyOut, payloadOut,
          cpc, sleepSecs, streak, reconnects, disconnectOk, published,
          intervalCfg, restartSec, request, response, requests,
          program, argDevice, config, certs, spc, session, verified,
          connectTried, opened, sensorRead, exitStatus,
          btpc, scans, btAttempt, peripheral, elapsed, btResult,
          wpc, wts, clock, lastWritten, torn, crashes>>

mainVars == <<pc, run, brokerUp, outages, attempt, lastFrame, weights,
              inflight, store, acked, acquired, failedPub, pubLog, exitCode>>

decVars == <<frame, serialOut, notifyOut, payloadOut>>

linkVars == <<cpc, sleepSecs, streak, reconnects, disconnectOk, published>>

adminVars == <<intervalCfg, restartSec, request, response, requests>>

cloudVars == <<linkVars, adminVars>>

bootIn == <<program, argDevice, config, certs>>

bootVars == <<bootIn, spc, session, verified, connectTried, opened,
              sensorRead, exitStatus>>

btVars == <<btpc, scans, btAttempt, peripheral, elapsed, btResult>>

ioVars == <<wpc, wts, clock, lastWritten, torn, crashes>>

startVars == <<bootVars, btVars, ioVars>>

----------------------------------------------------------------------------
(* Bounds *)

MaxRuns == 3        \* runs of scale_reader started by run_commands
MaxOutages == 2     \* times the broker becomes unreachable
MaxMagLen == 4      \* characters between prefix and suffix of a harness frame

----------------------------------------------------------------------------
(* Characters and strings *)

Digit == {"0", "1", "2", "3", "4", "5", "6", "7", "8", "9"}

Whitespace == {" ", "\n", "\r", "\t"}

NonAscii == "#80"   \* stands for any byte >= 0x80

DigitVal(c) ==
    CASE c = "0" -> 0 [] c = "1" -> 1 [] c = "2" -> 2 [] c = "3" -> 3
      [] c = "4" -> 4 [] c = "5" -> 5 [] c = "6" -> 6 [] c = "7" -> 7
      [] c = "8" -> 8 [] c = "9" -> 9

Lower(c) ==
    CASE c = "E" -> "e" [] c = "N" -> "n" [] c = "A" -> "a" [] c = "S" -> "s"
      [] c = "I" -> "i" [] c = "F" -> "f" [] c = "T" -> "t" [] c = "Y" -> "y"
      [] OTHER -> c

LowerStr(s) == [i \in DOMAIN s |-> Lower(s[i])]

AllDigits(s) == \A i \in DOMAIN s : s[i] \in Digit

RECURSIVE DigitsVal(_)
DigitsVal(s) ==
    IF s = <<>> THEN 0
    ELSE 10 * DigitsVal(SubSeq(s, 1, Len(s) - 1)) + DigitVal(s[Len(s)])

RECURSIVE LStrip(_)
LStrip(s) ==
    IF s # <<>> /\ s[1] \in Whitespace THEN LStrip(Tail(s)) ELSE s

RECURSIVE RStrip(_)
RStrip(s) ==
    IF s # <<>> /\ s[Len(s)] \in Whitespace
    THEN RStrip(SubSeq(s, 1, Len(s) - 1)) ELSE s

Strip(s) == RStrip(LStrip(s))

StartsWith(s, p) == Len(s) >= Len(p) /\ SubSeq(s, 1, Len(p)) = p

EndsWith(s, p) ==
    Len(s) >= Len(p) /\ SubSeq(s, Len(s) - Len(p) + 1, Len(s)) = p

NotUnderscore(c) == c # "_"

ExpMark == {"e", "E"}

Dot == {"."}

\* index of the first character of s that is in chars, 0 when there is none
FirstIndex(s, chars) ==
    IF \E i \in DOMAIN s : s[i] \in chars
    THEN CHOOSE i \in DOMAIN s :
             s[i] \in chars /\ \A j \in 1..(i - 1) : s[j] \notin chars
    ELSE 0

----------------------------------------------------------------------------
(* decimal.Decimal *)

NoDecimal == [kind |-> "none", neg |-> FALSE, coef |-> 0, exp |-> 0]

Num(neg, coef, exp) == [kind |-> "num", neg |-> neg, coef |-> coef, exp |-> exp]

Special(kind, neg) == [kind |-> kind, neg |-> neg, coef |-> 0, exp |-> 0]

Invalid == [ok |-> FALSE, val |-> NoDecimal]

Valid(d) == [ok |-> TRUE, val |-> d]

\* digits '.' [digits] | ['.'] digits : at most one point, at least one digit
ParseMantissa(neg, m, e) ==
    LET dot  == FirstIndex(m, Dot)
        ip   == IF dot = 0 THEN m ELSE SubSeq(m, 1, dot - 1)
        fp   == IF dot = 0 THEN <<>> ELSE SubSeq(m, dot + 1, Len(m))
    IN  IF AllDigits(ip) /\ AllDigits(fp) /\ Len(ip) + Len(fp) > 0
        THEN Valid(Num(neg, DigitsVal(ip \o fp), e - Len(fp)))
        ELSE Invalid

\* indicator [sign] digits
ParseExponent(x) ==
    LET signed == x # <<>> /\ x[1] \in {"+", "-"}
        ds     == IF signed THEN Tail(x) ELSE x
    IN  IF ds # <<>> /\ AllDigits(ds)
        THEN [ok |-> TRUE,
              val |-> IF signed /\ x[1] = "-" THEN 0 - DigitsVal(ds)
                      ELSE DigitsVal(ds)]
        ELSE [ok |-> FALSE, val |-> 0]

\* Decimal(str): surrounding whitespace and all underscores are removed, then
\* [sign] (decimal-part [exponent-part] | Inf | Infinity | NaN[digits] | sNaN[digits])
ParseDecimal(str) ==
    LET s    == LowerStr(SelectSeq(Strip(str), NotUnderscore))
        sgn  == s # <<>> /\ s[1] \in {"+", "-"}
        neg  == sgn /\ s[1] = "-"
        body == IF sgn THEN Tail(s) ELSE s
        ex   == FirstIndex(body, ExpMark)
    IN  IF body \in {<<"i", "n", "f">>,
                     <<"i", "n", "f", "i", "n", "i", "t", "y">>}
        THEN Valid(Special("inf", neg))
        ELSE IF StartsWith(body, <<"n", "a", "n">>)
                /\ AllDigits(SubSeq(body, 4, Len(body)))
        THEN Valid(Special("nan", neg))
        ELSE IF StartsWith(body, <<"s", "n", "a", "n">>)
                /\ AllDigits(SubSeq(body, 5, Len(body)))
        THEN Valid(Special("snan", neg))
        ELSE IF ex = 0 THEN ParseMantissa(neg, body, 0)
        ELSE LET e == ParseExponent(SubSeq(body, ex + 1, Len(body)))
             IN  IF e.ok THEN ParseMantissa(neg, SubSeq(body, 1, ex - 1), e.val)
                 ELSE Invalid

\* sign * Decimal: int times Decimal.  A signaling NaN operand raises
\* InvalidOperation; a quiet NaN gives NaN; otherwise the signs combine.
Times(sign, d) ==
    CASE d.kind = "snan" -> Invalid
      [] d.kind = "nan"  -> Valid(Special("nan", FALSE))
      [] OTHER -> Valid([d EXCEPT !.neg = (d.neg # (sign = -1))])

----------------------------------------------------------------------------
(* float(weight) and its JSON text *)

RECURSIVE NumDigits(_)
NumDigits(n) == IF n < 10 THEN 1 ELSE 1 + NumDigits(n \div 10)

RECURSIVE Pow10(_)
Pow10(k) == IF k = 0 THEN 1 ELSE 10 * Pow10(k - 1)

\* the shortest decimal that reads back as the same double: trailing zeros of
\* the coefficient carry no information in a float
RECURSIVE Normalize(_, _, _)
Normalize(neg, coef, exp) ==
    IF coef = 0 THEN Num(neg, 0, 0)
    ELSE IF coef % 10 = 0 THEN Normalize(neg, coef \div 10, exp + 1)
    ELSE Num(neg, coef, exp)

\* the first nine digits of the largest double, 1.7976931348623157e308
DblMaxLead == 179769313

DblMaxExp10 == 308

DblMinExp10 == -324

\* float(Decimal): the nearest double, named by its shortest decimal.  Exact
\* for coefficients of at most nine digits above the subnormal range, which
\* covers every frame of the model.  float(sNaN) raises ValueError.
ToFloat(d) ==
    CASE d.kind = "snan" -> Invalid
      [] d.kind \in {"nan", "inf"} -> Valid(d)
      [] OTHER ->
         LET n   == Normalize(d.neg, d.coef, d.exp)
             nd  == NumDigits(n.coef)
             adj == n.exp + nd - 1
         IN  IF n.coef = 0 THEN Valid(n)
             ELSE IF adj > DblMaxExp10
                     \/ (adj = DblMaxExp10
                         /\ n.coef * Pow10(9 - nd) > DblMaxLead)
             THEN Valid(Special("inf", d.neg))
             ELSE IF adj < DblMinExp10 THEN Valid(Num(d.neg, 0, 0))
             ELSE Valid(n)

RECURSIVE NatStr(_)
NatStr(n) ==
    IF n < 10 THEN <<CHOOSE c \in Digit : DigitVal(c) = n>>
    ELSE NatStr(n \div 10) \o <<CHOOSE c \in Digit : DigitVal(c) = n % 10>>

RECURSIVE Zeros(_)
Zeros(k) == IF k <= 0 THEN <<>> ELSE <<"0">> \o Zeros(k - 1)

\* json.dumps of a float: float.__repr__, fixed notation for
\* 1e-4 <= |x| < 1e16 and scientific notation outside
FloatRepr(f) ==
    LET sgn == IF f.neg THEN <<"-">> ELSE <<>>
        ds  == NatStr(f.coef)
        nd  == Len(ds)
        adj == f.exp + nd - 1
    IN  CASE f.kind = "nan" -> <<"N", "a", "N">>
          [] f.kind = "inf" -> sgn \o <<"I", "n", "f", "i", "n", "i", "t", "y">>
          [] f.coef = 0 -> sgn \o <<"0", ".", "0">>
          [] adj >= 16 \/ adj < -4 ->
             sgn \o <<ds[1]>>
                 \o (IF nd > 1 THEN <<".">> \o Tail(ds) ELSE <<>>)
                 \o <<"e", IF adj < 0 THEN "-" ELSE "+">>
                 \o (LET a == IF adj < 0 THEN 0 - adj ELSE adj
                     IN  IF a < 10 THEN <<"0">> \o NatStr(a) ELSE NatStr(a))
          [] f.exp >= 0 -> sgn \o ds \o Zeros(f.exp) \o <<".", "0">>
          [] adj >= 0 ->
             sgn \o SubSeq(ds, 1, nd + f.exp) \o <<".">>
                 \o SubSeq(ds, nd + f.exp + 1, nd)
          [] OTHER -> sgn \o <<"0", ".">> \o Zeros(0 - adj - 1) \o ds

----------------------------------------------------------------------------
(* The two decoders of scale_reader.py *)

Prefix == <<"s", "g">>

Suffix == <<"k", "g">>

IsAscii(raw) == \A i \in DOMAIN raw : raw[i] # NonAscii

Weight(d) == [status |-> "weight", val |-> d]

Unexpected == [status |-> "unexpected", val |-> NoDecimal]

DecodeError == [status |-> "error", val |-> NoDecimal]

NotDecoded == [status |-> "pending", val |-> NoDecimal]

\* SerialScale.read_weight, the body of one attempt that has a line waiting:
\* the weight to return, a logged "Unexpected format", or a logged
\* "Decoding error" (the except clause of line 274)
SerialParse(raw) ==
    IF ~IsAscii(raw) THEN DecodeError
    ELSE LET data == Strip(raw)
         IN  IF StartsWith(data, Prefix) /\ EndsWith(data, Suffix)
             THEN LET weight_str == SubSeq(data, 3, Len(data) - 2)
                      sign == IF StartsWith(weight_str, <<"-">>) THEN -1 ELSE 1
                      rest == IF sign = -1 THEN Tail(weight_str) ELSE weight_str
                      d    == ParseDecimal(rest)
                      w    == IF d.ok THEN Times(sign, d.val) ELSE Invalid
                  IN  IF w.ok THEN Weight(w.val) ELSE DecodeError
             ELSE Unexpected

\* NotificationDelegate.handleNotification: last_weight is set and
\* weight_received raised ("weight"), or nothing changes
HandleNotification(raw) ==
    IF ~IsAscii(raw) THEN DecodeError
    ELSE LET text_data == Strip(raw)
         IN  IF StartsWith(text_data, Prefix) /\ EndsWith(text_data, Suffix)
             THEN LET d == ParseDecimal(SubSeq(text_data, 3, Len(text_data) - 2))
                  IN  IF d.ok THEN Weight(d.val) ELSE DecodeError
             ELSE Unexpected

----------------------------------------------------------------------------
(* Decoder harness: every bounded frame goes through both decoders and the  *)
(* float conversion of the publish message                                  *)

MagAlphabet == {"-", "0", "5", ".", "e"}

SpecialMags ==
    {<<"n", "a", "n">>, <<"N", "a", "N">>, <<"s", "n", "a", "n">>,
     <<"i", "n", "f">>, <<"-", "i", "n", "f">>, <<"+", "5">>, <<" ", "5">>,
     <<"5", "_", "0">>, <<"A", "B">>}

Mags == UNION {[1..k -> MagAlphabet] : k \in 0..MaxMagLen} \cup SpecialMags

Prefixes == {<<>>, Prefix, <<"w", "n">>}

Suffixes == {<<>>, Suffix}

Trailers == {<<>>, <<"\r", "\n">>, <<NonAscii>>}

HarnessFrames ==
    {p \o m \o s \o t : p \in Prefixes, m \in Mags, s \in Suffixes, t \in Trailers}

NoPayload == [status |-> "pending", val |-> NoDecimal]

\* the 'weight': float(weight) member of the message of publish_measurement
PayloadWeight(d) ==
    LET f == ToFloat(d)
    IN  IF f.ok THEN [status |-> "float", val |-> f.val]
        ELSE [status |-> "error", val |-> NoDecimal]

MainIdle ==
    /\ pc = "idle"
    /\ run = 0
    /\ brokerUp = TRUE
    /\ outages = 0
    /\ attempt = 0
    /\ lastFrame = <<>>
    /\ weights = NoDecimal
    /\ inflight = <<>>
    /\ store = <<>>
    /\ acked = {}
    /\ acquired = {}
    /\ failedPub = {}
    /\ pubLog = <<>>
    /\ exitCode = -1

DecIdle ==
    /\ serialOut = NotDecoded
    /\ notifyOut = NotDecoded
    /\ payloadOut = NoPayload

\* no interval.json yet
NoInterval == [interval |-> "none", seconds |-> 0]

NoRequest == [kind |-> "none"]

NoResponse == [success |-> FALSE, text |-> "none"]

\* CloudControl not started, no sampling interval ever set
CloudIdle ==
    /\ cpc = "init"
    /\ sleepSecs = 0
    /\ streak = <<>>
    /\ reconnects = 0
    /\ disconnectOk = TRUE
    /\ published = <<>>
    /\ intervalCfg = NoInterval
    /\ restartSec = 0
    /\ request = NoRequest
    /\ response = NoResponse
    /\ requests = 0

\* config.json as a program finds it: missing, not JSON, or a JSON object
NoConfigFile == [file |-> "missing", data |-> <<>>]

GarbageConfigFile == [file |-> "garbage", data |-> <<>>]

ConfigFile(data) == [file |-> "json", data |-> data]

\* --device was not given: args.device is None
NoDevice == <<>>

NoSession == [client_id |-> <<>>, clean_session |-> TRUE]

\* neither scale_reader.py nor cloud_control.py is being started
BootIdle ==
    /\ program = "none"
    /\ argDevice = NoDevice
    /\ config = NoConfigFile
    /\ certs = {}
    /\ spc = "off"
    /\ session = NoSession
    /\ verified = FALSE
    /\ connectTried = FALSE
    /\ opened = FALSE
    /\ sensorRead = FALSE
    /\ exitStatus = -1

NoResult == [status |-> "pending", val |-> NoDecimal]

\* BluetoothScale.read_weight not called
BtIdle ==
    /\ btpc = "idle"
    /\ scans = 0
    /\ btAttempt = 0
    /\ peripheral = "None"
    /\ elapsed = 0
    /\ btResult = NoResult

Writers == {"append", "flush"}

NoFile == <<>>

\* nothing is being written to /tmp/measurements
IoIdle ==
    /\ wpc = [w \in Writers |-> "idle"]
    /\ wts = [w \in Writers |-> NoFile]
    /\ clock = 0
    /\ lastWritten = <<>>
    /\ torn = {}
    /\ crashes = 0

StartIdle == BootIdle /\ BtIdle /\ IoIdle

DecInit ==
    /\ MainIdle
    /\ frame \in HarnessFrames
    /\ DecIdle
    /\ CloudIdle
    /\ StartIdle

DecSerial ==
    /\ serialOut = NotDecoded
    /\ serialOut' = SerialParse(frame)
    /\ UNCHANGED <<frame, notifyOut, payloadOut>>
    /\ UNCHANGED <<mainVars, cloudVars, startVars>>

DecNotify ==
    /\ notifyOut = NotDecoded
    /\ notifyOut' = HandleNotification(frame)
    /\ UNCHANGED <<frame, serialOut, payloadOut>>
    /\ UNCHANGED <<mainVars, cloudVars, startVars>>

DecPayload ==
    /\ serialOut.status = "weight"
    /\ payloadOut = NoPayload
    /\ payloadOut' = PayloadWeight(serialOut.val)
    /\ UNCHANGED <<frame, serialOut, notifyOut>>
    /\ UNCHANGED <<mainVars, cloudVars, startVars>>

DecNext == DecSerial \/ DecNotify \/ DecPayload

DecodeSpec == DecInit /\ [][DecNext]_vars

----------------------------------------------------------------------------
(* The local measurement files and the publish message *)

DeviceId == "device"

\* datetime.utcnow().isoformat() + 'Z' of run n: the clock advances between
\* runs (run_commands sleeps between them), so each run has its own time
Timestamp(n) ==
    <<"T", "1", "0", ":", "0", "0", ":">> \o Zeros(2 - NumDigits(n))
        \o NatStr(n) \o <<"Z">>

\* f"/tmp/measurements/{timestamp.replace(':', '-')}.json"
FileName(ts) ==
    <<"/tmp/measurements/">>
        \o [i \in DOMAIN ts |-> IF ts[i] = ":" THEN "-" ELSE ts[i]]
        \o <<".json">>

\* the file opened with mode 'a': the object is added to what the file holds
WriteFileAppend(s, name, obj) ==
    [k \in DOMAIN s \cup {name} |->
        IF k # name THEN s[k]
        ELSE IF name \in DOMAIN s THEN Append(s[name], obj) ELSE <<obj>>]

\* every record goes to one file, whatever its timestamp
WriteFileShared(s, name, obj) ==
    [k \in DOMAIN s \cup {<<"/tmp/measurements/", "measurements.json">>} |->
        IF k = <<"/tmp/measurements/", "measurements.json">>
        THEN <<obj>> ELSE s[k]]

\* open(filename, 'w') followed by json.dump: the file holds this one object
WriteFile(s, name, obj) ==
    [k \in DOMAIN s \cup {name} |-> IF k = name THEN <<obj>> ELSE s[k]]

\* IoTClient.save_measurement (it has no caller in the repository)
SaveMeasurement(s, weight, timestamp, uploaded) ==
    WriteFile(s, FileName(timestamp),
              [weight |-> PayloadWeight(weight).val, timestamp |-> timestamp,
               unit |-> "kg", uploaded |-> uploaded])

\* the message of publish_measurement
Message(weight, n) ==
    [measurement_id |-> <<"scale-1-", n>>, device_id |-> DeviceId,
     scale_id |-> DeviceId, weight |-> PayloadWeight(weight).val,
     timestamp |-> Timestamp(n), unit |-> "kg"]

\* publish_measurement, "Save local copy": the message goes to its file
SaveLocalCopy(s, message) == WriteFile(s, FileName(message.timestamp), message)

----------------------------------------------------------------------------
(* scale_reader.main, started again and again by run_commands *)

max_attempts == 5

\* what the scale may send on the serial line: two readings, a frame of
\* another device, an empty magnitude, line noise, a not-a-number magnitude
SensorFrames ==
    {<<"s", "g", "5", "0", ".", "0", "0", "k", "g", "\r", "\n">>,
     <<"s", "g", "-", "3", ".", "5", "0", "k", "g">>,
     <<"w", "n", "1", "2", ".", "3", "4", "k", "g">>,
     <<"s", "g", "k", "g">>,
     <<NonAscii, "g">>,
     <<"s", "g", "n", "a", "n", "k", "g">>}

Init ==
    /\ MainIdle
    /\ frame = <<>>
    /\ DecIdle
    /\ CloudIdle
    /\ StartIdle

\* run_commands: the next run of scale_reader.py; main up to connect().
\* The runs go on for ever; past MaxRuns they are no longer counted.
Start ==
    /\ pc = "idle"
    /\ run' = IF run <= MaxRuns THEN run + 1 ELSE run
    /\ pc' = "connect"
    /\ attempt' = 0
    /\ weights' = NoDecimal
    /\ lastFrame' = <<>>
    /\ UNCHANGED <<brokerUp, outages, inflight, store, acked, acquired,
                   failedPub, pubLog, exitCode>>
    /\ UNCHANGED <<decVars, cloudVars, startVars>>

\* iot_client.connect() returns
ConnectOk ==
    /\ pc = "connect"
    /\ brokerUp
    /\ pc' = "read"
    /\ UNCHANGED <<run, brokerUp, outages, attempt, lastFrame, weights,
                   inflight, store, acked, acquired, failedPub, pubLog,
                   exitCode>>
    /\ UNCHANGED <<decVars, cloudVars, startVars>>

\* iot_client.connect() raises: outside the inner try, so straight to
\* "Fatal error" and sys.exit(1), with no disconnect
ConnectFail ==
    /\ pc = "connect"
    /\ ~brokerUp
    /\ pc' = "idle"
    /\ exitCode' = 1
    /\ UNCHANGED <<run, brokerUp, outages, attempt, lastFrame, weights,
                   inflight, store, acked, acquired, failedPub, pubLog>>
    /\ UNCHANGED <<decVars, cloudVars, startVars>>

\* SerialScale.read_weight, one attempt with nothing waiting on the line
ReadNothing ==
    /\ pc = "read"
    /\ attempt < max_attempts
    /\ attempt' = attempt + 1
    /\ UNCHANGED <<pc, run, brokerUp, outages, lastFrame, weights, inflight,
                   store, acked, acquired, failedPub, pubLog, exitCode>>
    /\ UNCHANGED <<decVars, cloudVars, startVars>>

\* SerialScale.read_weight, one attempt that reads a line: return the
\* weight, or log and go on to the next attempt.  (In the uncounted runs
\* past MaxRuns the scale stays silent.)
ReadFrame ==
    /\ pc = "read"
    /\ attempt < max_attempts
    /\ run <= MaxRuns
    /\ \E raw_data \in SensorFrames :
         LET out == SerialParse(raw_data)
         IN  /\ lastFrame' = raw_data
             /\ IF out.status = "weight"
                THEN /\ weights' = out.val
                     /\ acquired' = acquired \cup {run}
                     /\ pc' = "publish"
                     /\ attempt' = attempt
                ELSE /\ attempt' = attempt + 1
                     /\ UNCHANGED <<weights, acquired, pc>>
    /\ UNCHANGED <<run, brokerUp, outages, inflight, store, acked, failedPub,
                   pubLog, exitCode>>
    /\ UNCHANGED <<decVars, cloudVars, startVars>>

\* the loop condition off by one: giving up is possible an attempt early
ReadGiveUpEarly ==
    /\ pc = "read"
    /\ attempt >= max_attempts - 1
    /\ pc' = "finallyErr"
    /\ UNCHANGED <<run, brokerUp, outages, attempt, lastFrame, weights,
                   inflight, store, acked, acquired, failedPub, pubLog,
                   exitCode>>
    /\ UNCHANGED <<decVars, cloudVars, startVars>>

\* no exception after the last attempt: the empty weight goes on to publish
ReadGiveUpPublishes ==
    /\ pc = "read"
    /\ attempt >= max_attempts
    /\ pc' = "publish"
    /\ UNCHANGED <<run, brokerUp, outages, attempt, lastFrame, weights,
                   inflight, store, acked, acquired, failedPub, pubLog,
                   exitCode>>
    /\ UNCHANGED <<decVars, cloudVars, startVars>>

\* SerialScale.read_weight: "No valid weight data received" after the last
\* attempt; main goes to its finally clause with the exception pending
ReadGiveUp ==
    /\ pc = "read"
    /\ attempt >= max_attempts
    /\ pc' = "finallyErr"
    /\ UNCHANGED <<run, brokerUp, outages, attempt, lastFrame, weights,
                   inflight, store, acked, acquired, failedPub, pubLog,
                   exitCode>>
    /\ UNCHANGED <<decVars, cloudVars, startVars>>

\* publish_measurement up to future.result(): build the message and hand
\* it to the connection (float() of a weight read from the serial line
\* never raises: read_weight returns no signaling NaN)
Publish ==
    /\ pc = "publish"
    /\ inflight' = <<Message(weights, run)>>
    /\ pubLog' = Append(pubLog, run)
    /\ pc' = "awaitAck"
    /\ UNCHANGED <<run, brokerUp, outages, attempt, lastFrame, weights, store,
                   acked, acquired, failedPub, exitCode>>
    /\ UNCHANGED <<decVars, cloudVars, startVars>>

\* future.result(timeout=10) returns: the broker acknowledged the message;
\* the local copy is saved
PubAck ==
    /\ pc = "awaitAck"
    /\ brokerUp
    /\ acked' = acked \cup {inflight[1].timestamp}
    /\ store' = SaveLocalCopy(store, inflight[1])
    /\ inflight' = <<>>
    /\ pc' = "finallyOk"
    /\ UNCHANGED <<run, brokerUp, outages, attempt, lastFrame, weights,
                   acquired, failedPub, pubLog, exitCode>>
    /\ UNCHANGED <<decVars, cloudVars, startVars>>

\* future.result(timeout=10) raises (failure or timeout): logged, re-raised
PubFail ==
    /\ pc = "awaitAck"
    /\ ~brokerUp
    /\ failedPub' = failedPub \cup {run}
    /\ inflight' = <<>>
    /\ pc' = "finallyErr"
    /\ UNCHANGED <<run, brokerUp, outages, attempt, lastFrame, weights, store,
                   acked, acquired, pubLog, exitCode>>
    /\ UNCHANGED <<decVars, cloudVars, startVars>>

\* main's finally clause, iot_client.disconnect() (its own errors are
\* swallowed), then the end of the process: exit status 0, or 1 through
\* "Fatal error"
Disconnect ==
    /\ pc \in {"finallyOk", "finallyErr"}
    /\ exitCode' = IF pc = "finallyOk" THEN 0 ELSE 1
    /\ pc' = "idle"
    /\ UNCHANGED <<run, brokerUp, outages, attempt, lastFrame, weights,
                   inflight, store, acked, acquired, failedPub, pubLog>>
    /\ UNCHANGED <<decVars, cloudVars, startVars>>

\* the network: the broker becomes unreachable, and reachable again
BrokerDown ==
    /\ brokerUp
    /\ outages < MaxOutages
    /\ brokerUp' = FALSE
    /\ outages' = outages + 1
    /\ UNCHANGED <<pc, run, attempt, lastFrame, weights, inflight, store,
                   acked, acquired, failedPub, pubLog, exitCode>>
    /\ UNCHANGED <<decVars, cloudVars, startVars>>

BrokerBack ==
    /\ ~brokerUp
    /\ brokerUp' = TRUE
    /\ UNCHANGED <<pc, run, outages, attempt, lastFrame, weights, inflight,
                   store, acked, acquired, failedPub, pubLog, exitCode>>
    /\ UNCHANGED <<decVars, cloudVars, startVars>>

Agent ==
    \/ Start
    \/ ConnectOk
    \/ ConnectFail
    \/ ReadNothing
    \/ ReadFrame
    \/ ReadGiveUp
    \/ Publish
    \/ PubAck
    \/ PubFail
    \/ Disconnect

Next == Agent \/ BrokerDown \/ BrokerBack

Spec == Init /\ [][Next]_vars

\* every started step of the agent completes (timeouts bound each wait), the
\* runs follow one another, and an outage ends
FairSpec == Spec /\ WF_vars(Agent) /\ WF_vars(BrokerBack)

----------------------------------------------------------------------------
(* CloudControl.run: the connection loop of cloud_control.py *)

MaxReconnects == 3   \* reconnect delays that are counted and recorded
MaxPublished == 2    \* publishes of CloudControl.run that are recorded

TOPIC_MEASUREMENTS == "scale-measurements"

\* time.sleep(60) of the inner loop, time.sleep(5) before reconnecting
update_interval == 60

reconnect_delay == 5

\* main: controller.run() enters the outer loop
CloudRun ==
    /\ cpc = "init"
    /\ cpc' = "connect"
    /\ UNCHANGED <<sleepSecs, streak, reconnects, disconnectOk, published>>
    /\ UNCHANGED <<mainVars, decVars, adminVars, startVars>>

\* connect_future.result(timeout=10) returns: on to the inner loop
CloudConnectOk ==
    /\ cpc = "connect"
    /\ brokerUp
    /\ cpc' = "metrics"
    /\ streak' = <<>>
    /\ UNCHANGED <<sleepSecs, reconnects, disconnectOk, published>>
    /\ UNCHANGED <<mainVars, decVars, adminVars, startVars>>

\* the failed connect taken for a connection: the inner loop is entered
CloudConnectFailIgnored ==
    /\ cpc = "connect"
    /\ ~brokerUp
    /\ cpc' = "metrics"
    /\ UNCHANGED <<sleepSecs, streak, reconnects, disconnectOk, published>>
    /\ UNCHANGED <<mainVars, decVars, adminVars, startVars>>

\* connect raises or times out: "Fatal error in connection loop", then the
\* finally clause
CloudConnectFail ==
    /\ cpc = "connect"
    /\ ~brokerUp
    /\ cpc' = "disconnect"
    /\ UNCHANGED <<sleepSecs, streak, reconnects, disconnectOk, published>>
    /\ UNCHANGED <<mainVars, decVars, adminVars, startVars>>

\* the inner loop up to self.mqtt.publish: the metrics are collected and the
\* measurement (weight 0.0) is handed to the connection
CloudPublish ==
    /\ cpc = "metrics"
    /\ cpc' = "awaitAck"
    /\ published' = IF Len(published) < MaxPublished
                    THEN Append(published, TOPIC_MEASUREMENTS)
                    ELSE published
    /\ UNCHANGED <<sleepSecs, streak, reconnects, disconnectOk>>
    /\ UNCHANGED <<mainVars, decVars, adminVars, startVars>>

\* publish_future[0].result(timeout=5) returns; time.sleep(60) begins
CloudPubAck ==
    /\ cpc = "awaitAck"
    /\ brokerUp
    /\ cpc' = "sleep60"
    /\ sleepSecs' = update_interval
    /\ UNCHANGED <<streak, reconnects, disconnectOk, published>>
    /\ UNCHANGED <<mainVars, decVars, adminVars, startVars>>

\* the publish fails or times out: logged, re-raised, "Error in main loop",
\* break, then the finally clause
CloudPubFail ==
    /\ cpc = "awaitAck"
    /\ ~brokerUp
    /\ cpc' = "disconnect"
    /\ UNCHANGED <<sleepSecs, streak, reconnects, disconnectOk, published>>
    /\ UNCHANGED <<mainVars, decVars, adminVars, startVars>>

\* time.sleep(60) is over: the next round of the inner loop
CloudWake ==
    /\ cpc = "sleep60"
    /\ cpc' = "metrics"
    /\ sleepSecs' = 0
    /\ UNCHANGED <<streak, reconnects, disconnectOk, published>>
    /\ UNCHANGED <<mainVars, decVars, adminVars, startVars>>

\* the delay grows with every reconnect and is never reset
CloudDisconnectGrowing ==
    /\ cpc = "disconnect"
    /\ \E ok \in BOOLEAN : disconnectOk' = ok
    /\ cpc' = "sleep5"
    /\ sleepSecs' = reconnect_delay * (reconnects + 1)
    /\ streak' = IF Len(streak) < MaxReconnects
                 THEN Append(streak, sleepSecs') ELSE streak
    /\ reconnects' = IF reconnects < MaxReconnects
                     THEN reconnects + 1 ELSE reconnects
    /\ UNCHANGED published
    /\ UNCHANGED <<mainVars, decVars, adminVars, startVars>>

\* an error of the disconnect leaves the loop
CloudDisconnectRaises ==
    /\ cpc = "disconnect"
    /\ \E ok \in BOOLEAN :
         /\ disconnectOk' = ok
         /\ cpc' = IF ok THEN "sleep5" ELSE "raised"
    /\ sleepSecs' = reconnect_delay
    /\ streak' = IF Len(streak) < MaxReconnects
                 THEN Append(streak, sleepSecs') ELSE streak
    /\ reconnects' = IF reconnects < MaxReconnects
                     THEN reconnects + 1 ELSE reconnects
    /\ UNCHANGED published
    /\ UNCHANGED <<mainVars, decVars, adminVars, startVars>>

\* the finally clause: disconnect, whose error or timeout is logged and
\* swallowed; then "Waiting 5 seconds before reconnecting", time.sleep(5)
CloudDisconnect ==
    /\ cpc = "disconnect"
    /\ \E ok \in BOOLEAN : disconnectOk' = ok
    /\ cpc' = "sleep5"
    /\ sleepSecs' = reconnect_delay
    /\ streak' = IF Len(streak) < MaxReconnects
                 THEN Append(streak, sleepSecs') ELSE streak
    /\ reconnects' = IF reconnects < MaxReconnects
                     THEN reconnects + 1 ELSE reconnects
    /\ UNCHANGED published
    /\ UNCHANGED <<mainVars, decVars, adminVars, startVars>>

\* time.sleep(5) is over: back to the top of the outer loop
CloudReconnect ==
    /\ cpc = "sleep5"
    /\ cpc' = "connect"
    /\ sleepSecs' = 0
    /\ UNCHANGED <<streak, reconnects, disconnectOk, published>>
    /\ UNCHANGED <<mainVars, decVars, adminVars, startVars>>

CloudAgent ==
    \/ CloudRun
    \/ CloudConnectOk
    \/ CloudConnectFail
    \/ CloudPublish
    \/ CloudPubAck
    \/ CloudPubFail
    \/ CloudWake
    \/ CloudDisconnect
    \/ CloudReconnect

LinkNext == CloudAgent \/ BrokerDown \/ BrokerBack

LinkSpec == Init /\ [][LinkNext]_vars

\* every wait of the loop is bounded (result(timeout=...), time.sleep)
LinkFairSpec == LinkSpec /\ WF_vars(CloudAgent)

----------------------------------------------------------------------------
(* The sampling interval: set_scale_interval.py, and the admin page's       *)
(* /api/sampling-interval that runs it                                      *)

MaxRequests == 2     \* POSTs of a sampling interval that are handled

fast_seconds == 60

slow_seconds == 1800

min_seconds == 10

max_seconds == 86400

Upper(c) ==
    CASE c = "f" -> "F" [] c = "a" -> "A" [] c = "s" -> "S" [] c = "t" -> "T"
      [] c = "l" -> "L" [] c = "o" -> "O" [] c = "w" -> "W" [] c = "m" -> "M"
      [] c = "e" -> "E" [] c = "d" -> "D" [] c = "i" -> "I" [] c = "u" -> "U"
      [] OTHER -> c

UpperStr(s) == [i \in DOMAIN s |-> Upper(s[i])]

FAST == <<"F", "A", "S", "T">>

SLOW == <<"S", "L", "O", "W">>

\* the command line of set_scale_interval.py (argparse: exactly one of them)
ArgFast == [mode |-> "fast", seconds |-> 0]

ArgSlow == [mode |-> "slow", seconds |-> 0]

ArgSeconds(n) == [mode |-> "seconds", seconds |-> n]

\* what the script meets: it runs as root and systemctl works, it does not
\* run as root, or daemon-reload / restart fails
ScriptEnvs == {"ok", "notRoot", "systemctlFails"}

\* a change that is already in place is refused as an error
SetScaleIntervalOnce(args, env, cfg, rs) ==
    LET seconds == CASE args.mode = "fast" -> fast_seconds
                     [] args.mode = "slow" -> slow_seconds
                     [] OTHER -> args.seconds
        interval_type == CASE args.mode = "fast" -> "FAST"
                           [] args.mode = "slow" -> "SLOW"
                           [] OTHER -> "CUSTOM"
    IN  IF env = "notRoot"
        THEN [code |-> 1, cfg |-> cfg, rs |-> rs]
        ELSE IF args.mode = "seconds"
                /\ (args.seconds < min_seconds \/ args.seconds > max_seconds)
        THEN [code |-> 1, cfg |-> cfg, rs |-> rs]
        ELSE IF env = "systemctlFails" \/ rs = seconds
        THEN [code |-> 1, cfg |-> cfg, rs |-> seconds]
        ELSE [code |-> 0,
              cfg |-> [interval |-> interval_type, seconds |-> seconds],
              rs |-> seconds]

\* the range of a custom value is not checked
SetScaleIntervalAnySeconds(args, env, cfg, rs) ==
    LET seconds == CASE args.mode = "fast" -> fast_seconds
                     [] args.mode = "slow" -> slow_seconds
                     [] OTHER -> args.seconds
        interval_type == CASE args.mode = "fast" -> "FAST"
                           [] args.mode = "slow" -> "SLOW"
                           [] OTHER -> "CUSTOM"
    IN  IF env = "notRoot"
        THEN [code |-> 1, cfg |-> cfg, rs |-> rs]
        ELSE IF env = "systemctlFails"
        THEN [code |-> 1, cfg |-> cfg, rs |-> seconds]
        ELSE [code |-> 0,
              cfg |-> [interval |-> interval_type, seconds |-> seconds],
              rs |-> seconds]

\* set_scale_interval.py: the exit status and the two files afterwards
SetScaleInterval(args, env, cfg, rs) ==
    LET seconds == CASE args.mode = "fast" -> fast_seconds
                     [] args.mode = "slow" -> slow_seconds
                     [] OTHER -> args.seconds
        interval_type == CASE args.mode = "fast" -> "FAST"
                           [] args.mode = "slow" -> "SLOW"
                           [] OTHER -> "CUSTOM"
    IN  IF env = "notRoot"
        THEN [code |-> 1, cfg |-> cfg, rs |-> rs]
        ELSE IF args.mode = "seconds"
                /\ (args.seconds < min_seconds \/ args.seconds > max_seconds)
        THEN [code |-> 1, cfg |-> cfg, rs |-> rs]
        ELSE IF env = "systemctlFails"
        THEN [code |-> 1, cfg |-> cfg, rs |-> seconds]
        ELSE [code |-> 0,
              cfg |-> [interval |-> interval_type, seconds |-> seconds],
              rs |-> seconds]

\* the body of a POST: not JSON at all, JSON null, or a JSON object whose
\* members are strings or numbers
NotJson == [kind |-> "invalid"]

JsonNull == [kind |-> "null"]

JsonObject(members) == [kind |-> "object", members |-> members]

JsonStr(s) == [type |-> "str", s |-> s]

JsonNum(n) == [type |-> "num", n |-> n]

Payloads ==
    {NotJson, JsonNull,
     JsonObject([action |-> JsonStr(<<"r", "e", "b", "o", "o", "t">>)]),
     JsonObject([rate |-> JsonStr(FAST)]),
     JsonObject([rate |-> JsonStr(<<"f", "a", "s", "t">>)]),
     JsonObject([rate |-> JsonStr(SLOW)]),
     JsonObject([rate |-> JsonStr(<<"M", "E", "D", "I", "U", "M">>)]),
     JsonObject([rate |-> JsonNum(5)])}

ErrorResponse(text) == [success |-> FALSE, error |-> text]

\* the rate is not checked: whatever is not FAST is taken for SLOW
PostArgsUnchecked(data) ==
    IF data.kind # "object"
    THEN [ok |-> FALSE, resp |-> ErrorResponse("exception")]
    ELSE IF "rate" \notin DOMAIN data.members
    THEN [ok |-> TRUE, rate |-> SLOW, cmd |-> ArgSlow]
    ELSE IF data.members.rate.type # "str"
    THEN [ok |-> FALSE, resp |-> ErrorResponse("exception")]
    ELSE LET rate == UpperStr(data.members.rate.s)
         IN  [ok |-> TRUE, rate |-> rate,
              cmd |-> IF rate = FAST THEN ArgFast ELSE ArgSlow]

\* sampling_interval, POST, up to the script: the script's argument, or the
\* error response (request.get_json(), data['rate'].upper() and the 'in'
\* test may raise: the except clause answers with str(e))
PostArgs(data) ==
    IF data.kind # "object"
    THEN [ok |-> FALSE, resp |-> ErrorResponse("exception")]
    ELSE IF "rate" \notin DOMAIN data.members
    THEN [ok |-> FALSE, resp |-> ErrorResponse("Missing rate parameter")]
    ELSE IF data.members.rate.type # "str"
    THEN [ok |-> FALSE, resp |-> ErrorResponse("exception")]
    ELSE LET rate == UpperStr(data.members.rate.s)
         IN  IF rate \notin {FAST, SLOW}
             THEN [ok |-> FALSE,
                   resp |-> ErrorResponse("Rate must be FAST or SLOW")]
             ELSE [ok |-> TRUE, rate |-> rate,
                   cmd |-> IF rate = FAST THEN ArgFast ELSE ArgSlow]

\* sampling_interval, POST, after the script ran
PostResponse(rate, code) ==
    IF code = 0
    THEN [success |-> TRUE,
          message |-> IF rate = FAST THEN "Sampling rate set to FAST"
                      ELSE "Sampling rate set to SLOW"]
    ELSE ErrorResponse("Failed to update interval")

\* POST /api/sampling-interval: one request handled, script included
AdminPost ==
    /\ requests < MaxRequests
    /\ \E data \in Payloads, env \in ScriptEnvs :
         LET a == PostArgs(data)
             r == SetScaleInterval(a.cmd, env, intervalCfg, restartSec)
         IN  /\ request' = data
             /\ IF a.ok
                THEN /\ intervalCfg' = r.cfg
                     /\ restartSec' = r.rs
                     /\ response' = PostResponse(a.rate, r.code)
                ELSE /\ response' = a.resp
                     /\ UNCHANGED <<intervalCfg, restartSec>>
    /\ requests' = requests + 1
    /\ UNCHANGED <<mainVars, decVars, linkVars, startVars>>

CliArgs == {ArgFast, ArgSlow} \cup
    {ArgSeconds(n) : n \in {min_seconds - 1, min_seconds, max_seconds,
                            max_seconds + 1}}

\* set_scale_interval.py run from the command line
SetIntervalCli ==
    /\ \E args \in CliArgs, env \in ScriptEnvs :
         LET r == SetScaleInterval(args, env, intervalCfg, restartSec)
         IN  /\ request' = [kind |-> "cli", args |-> args]
             /\ intervalCfg' = r.cfg
             /\ restartSec' = r.rs
             /\ response' = [code |-> r.code]
    /\ UNCHANGED requests
    /\ UNCHANGED <<mainVars, decVars, linkVars, startVars>>

\* the device besides the scale reader: the connection loop of
\* cloud_control.py and the admin page, side by side
DeviceNext == CloudAgent \/ BrokerDown \/ BrokerBack \/ AdminPost

DeviceSpec == Init /\ [][DeviceNext]_vars

\* the sampling interval alone, set from the admin page and the command line
IntervalNext == AdminPost \/ SetIntervalCli

IntervalSpec == Init /\ [][IntervalNext]_vars

----------------------------------------------------------------------------
(* Process start: scale_reader.main from its arguments to its exit, and     *)
(* cloud_control.main from CloudControl() to CloudControl.run                *)

RS232 == <<"r", "s", "2", "3", "2">>

BLUETOOTH == <<"b", "l", "u", "e", "t", "o", "o", "t", "h">>

\* the files _create_mqtt_connection and _verify_certificates look for
AllCerts == {"cert", "key", "root"}

\* device identifiers of the harness
Ids == {<<"7">>, <<"7", "a">>}

YOUR_SCALE_ID ==
    <<"Y", "O", "U", "R", "_", "S", "C", "A", "L", "E", "_", "I", "D">>

Present == <<"s", "e", "t">>

AtMostOne(S) == {{}} \cup {{x} : x \in S}

\* a JSON object with the members plain, and id_key and connection_type
\* when a value is given for them
ConfigData(plain, id_key, ids, types) ==
    [k \in plain \cup (IF ids = {} THEN {} ELSE {id_key})
                 \cup (IF types = {} THEN {} ELSE {"connection_type"}) |->
        IF k = id_key THEN CHOOSE i \in ids : TRUE
        ELSE IF k = "connection_type" THEN CHOOSE t \in types : TRUE
        ELSE Present]

\* /home/amitash/certs/config.json, any member present or absent
ReaderConfigs ==
    {NoConfigFile, GarbageConfigFile} \cup
    {ConfigFile(ConfigData(plain, "device_id", ids, types)) :
        plain \in SUBSET {"iot_endpoint", "stage", "serial_port",
                          "baud_rate", "bluetooth_mac"},
        ids \in AtMostOne(Ids),
        types \in AtMostOne({RS232, BLUETOOTH})}

\* /etc/scale-reader/config.json, any member present or absent
CloudConfigs ==
    {NoConfigFile, GarbageConfigFile} \cup
    {ConfigFile(ConfigData(plain, "scale_id", ids, {})) :
        plain \in SUBSET {"serial_port", "baud_rate", "iot_endpoint"},
        ids \in AtMostOne(Ids \cup {YOUR_SCALE_ID})}

\* one of the two programs is started, with any command line, config.json
\* and set of credential files
ProgramInit ==
    /\ MainIdle
    /\ frame = <<>>
    /\ DecIdle
    /\ CloudIdle
    /\ BtIdle
    /\ IoIdle
    /\ \/ /\ program = "scale_reader"
          /\ argDevice \in {NoDevice, RS232, BLUETOOTH}
          /\ config \in ReaderConfigs
       \/ /\ program = "cloud_control"
          /\ argDevice = NoDevice
          /\ config \in CloudConfigs
    /\ certs \in SUBSET AllCerts
    /\ spc = "start"
    /\ session = NoSession
    /\ verified = FALSE
    /\ connectTried = FALSE
    /\ opened = FALSE
    /\ sensorRead = FALSE
    /\ exitStatus = -1

\* "Fatal error" and sys.exit(1) of either main
FatalError ==
    /\ spc' = "exited"
    /\ exitStatus' = 1

\* ScaleConfig._load_config: the members that must be there
required_fields(device) ==
    {"device_id", "iot_endpoint", "stage"} \cup
    (IF device = RS232 THEN {"serial_port", "baud_rate"}
     ELSE IF device = BLUETOOTH THEN {"bluetooth_mac"}
     ELSE {})

\* ScaleConfig(args.device)
ReaderLoadConfig ==
    /\ program = "scale_reader"
    /\ spc = "start"
    /\ IF \/ config.file # "json"
          \/ ~(required_fields(argDevice) \subseteq DOMAIN config.data)
       THEN FatalError
       ELSE spc' = "client" /\ UNCHANGED exitStatus
    /\ UNCHANGED <<bootIn, session, verified, connectTried, opened,
                   sensorRead>>
    /\ UNCHANGED <<mainVars, decVars, cloudVars, btVars, ioVars>>

\* only the first character of the device id goes into the client id
ReaderClientIdShort(device_id) ==
    <<"d", "e", "v", "i", "c", "e", "-">> \o SubSeq(device_id, 1, 1)

\* f"device-{self.device_id}"
ReaderClientId(device_id) ==
    <<"d", "e", "v", "i", "c", "e", "-">> \o device_id

\* the credential files are not looked for
CreateMqttConnectionUnchecked ==
    /\ program = "scale_reader"
    /\ spc = "client"
    /\ session' = [client_id |-> ReaderClientId(config.data["device_id"]),
                   clean_session |-> FALSE]
    /\ spc' = "connect"
    /\ UNCHANGED <<verified, exitStatus>>
    /\ UNCHANGED <<bootIn, connectTried, opened, sensorRead>>
    /\ UNCHANGED <<mainVars, decVars, cloudVars, btVars, ioVars>>

\* IoTClient(...): _create_mqtt_connection looks for the three files and
\* builds the connection
CreateMqttConnection ==
    /\ program = "scale_reader"
    /\ spc = "client"
    /\ IF certs # AllCerts
       THEN FatalError /\ UNCHANGED <<session, verified>>
       ELSE /\ verified' = TRUE
            /\ session' =
                 [client_id |-> ReaderClientId(config.data["device_id"]),
                  clean_session |-> FALSE]
            /\ spc' = "connect"
            /\ UNCHANGED exitStatus
    /\ UNCHANGED <<bootIn, connectTried, opened, sensorRead>>
    /\ UNCHANGED <<mainVars, decVars, cloudVars, btVars, ioVars>>

\* iot_client.connect(): it returns, or it raises outside the inner try
ReaderConnect ==
    /\ program = "scale_reader"
    /\ spc = "connect"
    /\ connectTried' = TRUE
    /\ \E ok \in BOOLEAN :
         IF ok
         THEN opened' = TRUE /\ spc' = "select" /\ UNCHANGED exitStatus
         ELSE FatalError /\ UNCHANGED opened
    /\ UNCHANGED <<bootIn, session, verified, sensorRead>>
    /\ UNCHANGED <<mainVars, decVars, cloudVars, btVars, ioVars>>

\* main, "Choose device type": the test of args.device and connection_type
\* and the arguments of SerialScale(...) or BluetoothScale(...); a member
\* that is not there raises KeyError inside the inner try
SelectScale ==
    /\ program = "scale_reader"
    /\ spc = "select"
    /\ LET data == config.data
           has(k) == k \in DOMAIN data
           serial == \/ argDevice = RS232
                     \/ (has("connection_type")
                         /\ data["connection_type"] = RS232)
           keyError ==
               IF argDevice # RS232 /\ ~has("connection_type") THEN TRUE
               ELSE IF serial
               THEN ~(has("serial_port") /\ has("baud_rate"))
               ELSE ~has("bluetooth_mac")
       IN  spc' = IF keyError THEN "finallyErr"
                  ELSE IF serial THEN "readSerial" ELSE "readBluetooth"
    /\ UNCHANGED <<bootIn, session, verified, connectTried, opened,
                   sensorRead, exitStatus>>
    /\ UNCHANGED <<mainVars, decVars, cloudVars, btVars, ioVars>>

\* with SerialScale(...) as scale: weights = scale.read_weight(): the port
\* does not open, the dictionary of weights is returned, or read_weight
\* raises
ReadSerial ==
    /\ program = "scale_reader"
    /\ spc = "readSerial"
    /\ \E out \in {"openFails", "weights", "raises"} :
         /\ sensorRead' = (out # "openFails")
         /\ spc' = IF out = "weights" THEN "publish" ELSE "finallyErr"
    /\ UNCHANGED <<bootIn, session, verified, connectTried, opened,
                   exitStatus>>
    /\ UNCHANGED <<mainVars, decVars, cloudVars, btVars, ioVars>>

\* weights = BluetoothScale(...).read_weight(): it raises, or it returns a
\* Decimal and weights.items() raises AttributeError
ReadBluetooth ==
    /\ program = "scale_reader"
    /\ spc = "readBluetooth"
    /\ sensorRead' = TRUE
    /\ spc' = "finallyErr"
    /\ UNCHANGED <<bootIn, session, verified, connectTried, opened,
                   exitStatus>>
    /\ UNCHANGED <<mainVars, decVars, cloudVars, btVars, ioVars>>

\* a failed publish ends the process at once, the finally clause skipped
ReaderPublishNoFinally ==
    /\ program = "scale_reader"
    /\ spc = "publish"
    /\ \E ok \in BOOLEAN :
         IF ok /\ "connection_type" \in DOMAIN config.data
         THEN spc' = "finallyOk" /\ UNCHANGED exitStatus
         ELSE FatalError
    /\ UNCHANGED <<bootIn, session, verified, connectTried, opened,
                   sensorRead>>
    /\ UNCHANGED <<mainVars, decVars, cloudVars, btVars, ioVars>>

\* iot_client.publish_measurement(weight["wight"]) and the log line after
\* it, which reads config.data['connection_type']
ReaderPublish ==
    /\ program = "scale_reader"
    /\ spc = "publish"
    /\ \E ok \in BOOLEAN :
         spc' = IF ok /\ "connection_type" \in DOMAIN config.data
                THEN "finallyOk" ELSE "finallyErr"
    /\ UNCHANGED <<bootIn, session, verified, connectTried, opened,
                   sensorRead, exitStatus>>
    /\ UNCHANGED <<mainVars, decVars, cloudVars, btVars, ioVars>>

\* finally: iot_client.disconnect(), which swallows its own errors; then
\* the end of main, or "Fatal error" and sys.exit(1)
ReaderDisconnect ==
    /\ program = "scale_reader"
    /\ spc \in {"finallyOk", "finallyErr"}
    /\ opened' = FALSE
    /\ spc' = "exited"
    /\ exitStatus' = IF spc = "finallyOk" THEN 0 ELSE 1
    /\ UNCHANGED <<bootIn, session, verified, connectTried, sensorRead>>
    /\ UNCHANGED <<mainVars, decVars, cloudVars, btVars, ioVars>>

\* CloudControl._load_config
CloudLoadConfig ==
    /\ program = "cloud_control"
    /\ spc = "start"
    /\ IF \/ config.file # "json"
          \/ ~({"scale_id", "serial_port", "baud_rate", "iot_endpoint"}
                  \subseteq DOMAIN config.data)
          \/ config.data["scale_id"] = YOUR_SCALE_ID
       THEN FatalError
       ELSE spc' = "verify" /\ UNCHANGED exitStatus
    /\ UNCHANGED <<bootIn, session, verified, connectTried, opened,
                   sensorRead>>
    /\ UNCHANGED <<mainVars, decVars, cloudVars, btVars, ioVars>>

\* CloudControl._verify_certificates
VerifyCertificates ==
    /\ program = "cloud_control"
    /\ spc = "verify"
    /\ IF certs # AllCerts
       THEN FatalError /\ UNCHANGED verified
       ELSE verified' = TRUE /\ spc' = "create" /\ UNCHANGED exitStatus
    /\ UNCHANGED <<bootIn, session, connectTried, opened, sensorRead>>
    /\ UNCHANGED <<mainVars, decVars, cloudVars, btVars, ioVars>>

\* f"scale-{self.scale_id}"
CloudClientId(scale_id) == <<"s", "c", "a", "l", "e", "-">> \o scale_id

\* CloudControl._create_mqtt_client; controller.run() is next
CreateMqttClient ==
    /\ program = "cloud_control"
    /\ spc = "create"
    /\ session' = [client_id |-> CloudClientId(config.data["scale_id"]),
                   clean_session |-> FALSE]
    /\ spc' = "ready"
    /\ UNCHANGED <<bootIn, verified, connectTried, opened, sensorRead,
                   exitStatus>>
    /\ UNCHANGED <<mainVars, decVars, cloudVars, btVars, ioVars>>

\* controller.run(), once CloudControl() has returned
ControllerRun ==
    /\ program = "cloud_control"
    /\ spc = "ready"
    /\ CloudAgent

\* the broker while cloud_control runs
ControllerBroker ==
    /\ program = "cloud_control"
    /\ spc = "ready"
    /\ (BrokerDown \/ BrokerBack)

ProgramNext ==
    \/ ReaderLoadConfig \/ CreateMqttConnection \/ ReaderConnect
    \/ SelectScale \/ ReadSerial \/ ReadBluetooth \/ ReaderPublish
    \/ ReaderDisconnect
    \/ CloudLoadConfig \/ VerifyCertificates \/ CreateMqttClient
    \/ ControllerRun \/ ControllerBroker

ProgramSpec == ProgramInit /\ [][ProgramNext]_vars

----------------------------------------------------------------------------
(* BluetoothScale.read_weight.  Time is counted in half seconds, so that a  *)
(* notification can arrive in the middle of a waitForNotifications(1.0).    *)

connection_retries == 3

\* while time.time() - start_time < 30
wait_seconds == 30

HalfSeconds(secs) == 2 * secs

Returned(d) == [status |-> "weight", val |-> d]

Raised == [status |-> "raised", val |-> NoDecimal]

\* scale.read_weight() is called
BtReadWeight ==
    /\ btpc = "idle"
    /\ btpc' = "setup"
    /\ UNCHANGED <<scans, btAttempt, peripheral, elapsed, btResult>>
    /\ UNCHANGED <<mainVars, decVars, cloudVars, bootVars, ioVars>>

\* setup_bluetooth: the hciconfig calls succeed, or one raises
SetupBluetooth ==
    /\ btpc = "setup"
    /\ \E ok \in BOOLEAN :
         IF ok
         THEN btpc' = "discover" /\ UNCHANGED btResult
         ELSE btpc' = "done" /\ btResult' = Raised
    /\ UNCHANGED <<scans, btAttempt, peripheral, elapsed>>
    /\ UNCHANGED <<mainVars, decVars, cloudVars, bootVars, ioVars>>

\* discover_scale, one scan of 5 s: the scale is among the devices, or it is
\* not (or the scan raised) and the next scan follows
DiscoverScan ==
    /\ btpc = "discover"
    /\ scans < connection_retries
    /\ scans' = scans + 1
    /\ \E found \in BOOLEAN :
         btpc' = IF found THEN "attempt" ELSE "discover"
    /\ UNCHANGED <<btAttempt, peripheral, elapsed, btResult>>
    /\ UNCHANGED <<mainVars, decVars, cloudVars, bootVars, ioVars>>

\* discover_scale returns False: "Scale not found after all retries"
DiscoverFails ==
    /\ btpc = "discover"
    /\ scans >= connection_retries
    /\ btpc' = "done"
    /\ btResult' = Raised
    /\ UNCHANGED <<scans, btAttempt, peripheral, elapsed>>
    /\ UNCHANGED <<mainVars, decVars, cloudVars, bootVars, ioVars>>

\* one pass of the for loop up to the wait: Peripheral() raises, connect or
\* the subscription raises, or notifications are enabled and the clock starts
BtConnect ==
    /\ btpc = "attempt"
    /\ btAttempt < connection_retries
    /\ \E out \in {"noPeripheral", "connectFails", "subscribed"} :
         /\ peripheral' = CASE out = "noPeripheral" -> "None"
                            [] out = "connectFails" -> "created"
                            [] OTHER -> "connected"
         /\ btpc' = IF out = "subscribed" THEN "wait" ELSE "except"
    /\ elapsed' = 0
    /\ UNCHANGED <<scans, btAttempt, btResult>>
    /\ UNCHANGED <<mainVars, decVars, cloudVars, bootVars, ioVars>>

\* one pass of the while loop: waitForNotifications(1.0) returns False after
\* a second, or a notification arrives after a half or a whole second and
\* the delegate decodes it, or the link drops (BTLEDisconnectError)
WaitForNotifications ==
    /\ btpc = "wait"
    /\ elapsed < HalfSeconds(wait_seconds)
    /\ \/ /\ elapsed' = elapsed + HalfSeconds(1)
          /\ UNCHANGED <<btpc, btResult>>
       \/ \E d \in {1, 2}, raw \in SensorFrames :
            LET out == HandleNotification(raw)
            IN  /\ elapsed' = elapsed + d
                /\ IF out.status = "weight"
                   THEN btpc' = "finallyReturn" /\ btResult' = Returned(out.val)
                   ELSE UNCHANGED <<btpc, btResult>>
       \/ /\ btpc' = "except"
          /\ UNCHANGED <<elapsed, btResult>>
    /\ UNCHANGED <<scans, btAttempt, peripheral>>
    /\ UNCHANGED <<mainVars, decVars, cloudVars, bootVars, ioVars>>

\* the while loop ends: "Timeout waiting for weight measurement"
WaitTimeout ==
    /\ btpc = "wait"
    /\ elapsed >= HalfSeconds(wait_seconds)
    /\ btpc' = "finallyNext"
    /\ UNCHANGED <<scans, btAttempt, peripheral, elapsed, btResult>>
    /\ UNCHANGED <<mainVars, decVars, cloudVars, bootVars, ioVars>>

\* either except clause: sleep and go on, or raise in the last pass
BtExcept ==
    /\ btpc = "except"
    /\ btpc' = IF btAttempt < connection_retries - 1
               THEN "finallyNext" ELSE "finallyRaise"
    /\ UNCHANGED <<scans, btAttempt, peripheral, elapsed, btResult>>
    /\ UNCHANGED <<mainVars, decVars, cloudVars, bootVars, ioVars>>

\* the peripheral is disconnected only when no exception is on its way
BtFinallyOnSuccess ==
    /\ btpc \in {"finallyNext", "finallyReturn", "finallyRaise"}
    /\ peripheral' = IF peripheral = "None" \/ btpc = "finallyRaise"
                     THEN peripheral ELSE "disconnected"
    /\ CASE btpc = "finallyReturn" ->
              btpc' = "done" /\ UNCHANGED <<btAttempt, btResult>>
         [] btpc = "finallyRaise" ->
              btpc' = "done" /\ btResult' = Raised /\ UNCHANGED btAttempt
         [] OTHER ->
              /\ btpc' = "attempt"
              /\ btAttempt' = btAttempt + 1
              /\ UNCHANGED btResult
    /\ UNCHANGED <<scans, elapsed>>
    /\ UNCHANGED <<mainVars, decVars, cloudVars, bootVars, ioVars>>

\* the finally clause: peripheral.disconnect() when there is a peripheral,
\* its errors swallowed; then the return, the raise, or the next pass
BtFinally ==
    /\ btpc \in {"finallyNext", "finallyReturn", "finallyRaise"}
    /\ peripheral' = IF peripheral = "None" THEN "None" ELSE "disconnected"
    /\ CASE btpc = "finallyReturn" ->
              btpc' = "done" /\ UNCHANGED <<btAttempt, btResult>>
         [] btpc = "finallyRaise" ->
              btpc' = "done" /\ btResult' = Raised /\ UNCHANGED btAttempt
         [] OTHER ->
              /\ btpc' = "attempt"
              /\ btAttempt' = btAttempt + 1
              /\ UNCHANGED btResult
    /\ UNCHANGED <<scans, elapsed>>
    /\ UNCHANGED <<mainVars, decVars, cloudVars, bootVars, ioVars>>

\* the for loop ends: "Failed to read weight from scale after all retries"
BtGiveUp ==
    /\ btpc = "attempt"
    /\ btAttempt >= connection_retries
    /\ btpc' = "done"
    /\ btResult' = Raised
    /\ UNCHANGED <<scans, btAttempt, peripheral, elapsed>>
    /\ UNCHANGED <<mainVars, decVars, cloudVars, bootVars, ioVars>>

BluetoothNext ==
    \/ BtReadWeight \/ SetupBluetooth \/ DiscoverScan \/ DiscoverFails
    \/ BtConnect \/ WaitForNotifications \/ WaitTimeout \/ BtExcept
    \/ BtFinally \/ BtGiveUp

BluetoothSpec == Init /\ [][BluetoothNext]_vars

----------------------------------------------------------------------------
(* The store written by two activities at once: one saves new measurements, *)
(* the other saves again, as uploaded, measurements it finds not uploaded.  *)
(* A write is "with open(filename, 'w') as f: json.dump(...)": the file is   *)
(* created or emptied, then filled; the process may die in between.         *)

MaxWrites == 3      \* measurements that are saved
MaxCrashes == 2     \* times the process dies in the middle of a write

mainButStore == <<pc, run, brokerUp, outages, attempt, lastFrame, weights,
                  inflight, acked, acquired, failedPub, pubLog, exitCode>>

\* open(filename, 'w'): the file is there and holds nothing
OpenForWrite(s, name) ==
    [k \in DOMAIN s \cup {name} |-> IF k = name THEN <<>> ELSE s[k]]

StoredWeight == ParseDecimal(<<"5">>).val

\* the object save_measurement dumps
Dumped(timestamp, uploaded) ==
    LET written == SaveMeasurement(<<>>, StoredWeight, timestamp, uploaded)
    IN  written[CHOOSE k \in DOMAIN written : TRUE][1]

\* save_measurement(weight, timestamp) of a new measurement, up to the open
AppendOpen ==
    /\ wpc["append"] = "idle"
    /\ clock < MaxWrites
    /\ clock' = clock + 1
    /\ store' = OpenForWrite(store, FileName(Timestamp(clock + 1)))
    /\ wts' = [wts EXCEPT !["append"] = Timestamp(clock + 1)]
    /\ wpc' = [wpc EXCEPT !["append"] = "open"]
    /\ UNCHANGED <<lastWritten, torn, crashes>>
    /\ UNCHANGED <<mainButStore, decVars, cloudVars, bootVars, btVars>>

\* the json.dump and the close of that save_measurement
AppendDump ==
    /\ wpc["append"] = "open"
    /\ store' = SaveMeasurement(store, StoredWeight, wts["append"], FALSE)
    /\ lastWritten' = (FileName(wts["append"]) :> Dumped(wts["append"], FALSE))
                          @@ lastWritten
    /\ wts' = [wts EXCEPT !["append"] = NoFile]
    /\ wpc' = [wpc EXCEPT !["append"] = "idle"]
    /\ UNCHANGED <<clock, torn, crashes>>
    /\ UNCHANGED <<mainButStore, decVars, cloudVars, bootVars, btVars>>

\* save_measurement(weight, timestamp, uploaded=True) of a measurement whose
\* file reads as not uploaded, up to the open
FlushOpen ==
    /\ wpc["flush"] = "idle"
    /\ \E n \in 1..clock :
         LET name == FileName(Timestamp(n))
         IN  /\ name \in DOMAIN store
             /\ Len(store[name]) = 1
             /\ store[name][1].uploaded = FALSE
             /\ store' = OpenForWrite(store, name)
             /\ wts' = [wts EXCEPT !["flush"] = Timestamp(n)]
    /\ wpc' = [wpc EXCEPT !["flush"] = "open"]
    /\ UNCHANGED <<clock, lastWritten, torn, crashes>>
    /\ UNCHANGED <<mainButStore, decVars, cloudVars, bootVars, btVars>>

\* the json.dump and the close of that save_measurement
FlushDump ==
    /\ wpc["flush"] = "open"
    /\ store' = SaveMeasurement(store, StoredWeight, wts["flush"], TRUE)
    /\ lastWritten' = (FileName(wts["flush"]) :> Dumped(wts["flush"], TRUE))
                          @@ lastWritten
    /\ wts' = [wts EXCEPT !["flush"] = NoFile]
    /\ wpc' = [wpc EXCEPT !["flush"] = "idle"]
    /\ UNCHANGED <<clock, torn, crashes>>
    /\ UNCHANGED <<mainButStore, decVars, cloudVars, bootVars, btVars>>

\* the process dies while a file is open for writing: the files stay as
\* they are, and both activities start again
Crash ==
    /\ crashes < MaxCrashes
    /\ \E w \in Writers : wpc[w] = "open"
    /\ torn' = torn \cup {FileName(wts[w]) : w \in {v \in Writers : wpc[v] = "open"}}
    /\ wpc' = [w \in Writers |-> "idle"]
    /\ wts' = [w \in Writers |-> NoFile]
    /\ crashes' = crashes + 1
    /\ UNCHANGED <<clock, lastWritten>>
    /\ UNCHANGED <<mainVars, decVars, cloudVars, bootVars, btVars>>

StoreNext == AppendOpen \/ AppendDump \/ FlushOpen \/ FlushDump \/ Crash

StoreSpec == Init /\ [][StoreNext]_vars

----------------------------------------------------------------------------
(* The store as the specification reads it: a record is pending when its    *)
(* "uploaded" member is false, uploaded when it is true                      *)

HasMember(obj, name) == name \in DOMAIN obj

IsPending(obj) == HasMember(obj, "uploaded") /\ obj.uploaded = FALSE

IsUploaded(obj) == HasMember(obj, "uploaded") /\ obj.uploaded = TRUE

HasRecord(n) == FileName(Timestamp(n)) \in DOMAIN store

RecordOf(n) == store[FileName(Timestamp(n))]

HasPendingRecord(n) ==
    HasRecord(n) /\ \A i \in DOMAIN RecordOf(n) : IsPending(RecordOf(n)[i])

HasUploadedRecord(n) ==
    HasRecord(n) /\ \A i \in DOMAIN RecordOf(n) : IsUploaded(RecordOf(n)[i])

Runs == 1..MaxRuns

----------------------------------------------------------------------------
(* Claims about persistence and delivery (Spec, FairSpec) *)

\* C1: in a cycle that obtained a reading, a record with uploaded=false is
\* in the store when the publish is attempted, and after every publish
\* failure or timeout a stored record of that reading exists.
C1_PersistedBeforePublish ==
    /\ pc = "awaitAck" => HasPendingRecord(run)
    /\ \A n \in failedPub : HasRecord(n)

\* C2: every reading that is acquired is eventually acknowledged by the
\* broker, the broker being reachable again after each outage.
C2_EveryReadingAcked ==
    \A n \in Runs : [](n \in acquired => <>(Timestamp(n) \in acked))

\* C3: a newer measurement is never published while an older measurement
\* whose publish failed has not been published again: every publish is
\* preceded by the original publish and a re-publish of each older failed one.
C3_PendingFlushedFirst ==
    \A i \in DOMAIN pubLog : \A n \in failedPub :
        n < pubLog[i] =>
            \E j1, j2 \in 1..(i - 1) :
                j1 < j2 /\ pubLog[j1] = n /\ pubLog[j2] = n

\* C5: once the publish of a measurement is acknowledged and publish_measurement
\* has returned, the stored record of that measurement has uploaded=true, and
\* no record with uploaded=false is left for it.
C5_AckedMarkedUploaded ==
    \A n \in Runs :
        (Timestamp(n) \in acked /\ (n < run \/ pc \in {"finallyOk", "idle"}))
            => HasUploadedRecord(n)

\* C6: a measurement in the store is in the pending set (uploaded=false)
\* exactly as long as it has not been marked uploaded: every stored record
\* is either pending or marked uploaded.
C6_PendingUntilMarked ==
    \A k \in DOMAIN store : \A i \in DOMAIN store[k] :
        IsPending(store[k][i]) \/ IsUploaded(store[k][i])

\* C7: writing a record again under the same timestamp key leaves the store
\* as it was after the first write (the replayed local copy of a stored
\* measurement, and save_measurement marking a record uploaded twice), and
\* changes no record kept under another key.
C7_RewriteIdempotent ==
    /\ \A k \in DOMAIN store : \A i \in DOMAIN store[k] :
          SaveLocalCopy(store, store[k][i]) = store
    /\ \A n \in Runs :
          LET once  == SaveMeasurement(store, weights, Timestamp(n), TRUE)
              twice == SaveMeasurement(once, weights, Timestamp(n), TRUE)
          IN  /\ twice = once
              /\ \A k \in DOMAIN store :
                    k # FileName(Timestamp(n)) => once[k] = store[k]

\* two measurements are stored, the second one written next to the first
C7_Witness ==
    /\ Cardinality(DOMAIN store) >= 2
    /\ pc = "finallyOk"

----------------------------------------------------------------------------
(* Claims about one acquisition cycle (Spec, FairSpec) *)

\* C11: reading the serial line ends after at most 5 attempts: read_weight
\* returns the first valid reading it sees (no valid frame is passed over),
\* within the 5 attempts, or gives up after exactly 5 attempts without a
\* valid frame and returns no weight; it always ends.
C11_BoundedAttempts ==
    /\ [](attempt \in 0..5)
    /\ [](pc = "read" =>
            (lastFrame = <<>> \/ SerialParse(lastFrame).status # "weight"))
    /\ [][(pc = "read" /\ pc' # "read") =>
            \/ /\ pc' = "publish"
               /\ attempt < 5
               /\ SerialParse(lastFrame').status = "weight"
               /\ weights' = SerialParse(lastFrame').val
            \/ /\ pc' = "finallyErr"
               /\ attempt = 5
               /\ weights' = NoDecimal]_vars
    /\ (pc = "read" ~> pc # "read")

\* read_weight gave up after five attempts that saw only undecodable frames
C11_Witness ==
    /\ pc = "finallyErr"
    /\ attempt = 5
    /\ run \notin acquired
    /\ lastFrame # <<>>

\* C12: in a cycle without a valid reading nothing is written to the store
\* and nothing is published, and after the reading was given up the next
\* cycle starts.
C12_NoReadingNoMeasurement ==
    /\ [][run' \notin acquired' =>
            /\ store' = store
            /\ pubLog' = pubLog
            /\ acked' = acked
            /\ inflight' = <<>>]_vars
    /\ ((pc = "read" /\ attempt = 5) ~> pc = "connect")

\* run 1 stored its measurement, run 2 (broker reachable throughout) ended
\* without a reading and left the store as it was, run 3 has started
C12_Witness ==
    /\ run = 3
    /\ pc = "connect"
    /\ outages = 0
    /\ exitCode = 1
    /\ acquired = {1}
    /\ DOMAIN store = {FileName(Timestamp(1))}
    /\ pubLog = <<1>>

\* C17: a measurement whose publish failed or timed out is kept as pending
\* (a record with uploaded=false, never uploaded=true), and the process
\* does not end on the failure.
C17_FailedPublishKeptPending ==
    /\ \A n \in failedPub : HasPendingRecord(n) /\ ~HasUploadedRecord(n)
    /\ run \in failedPub => pc # "idle"

----------------------------------------------------------------------------
(* Claims about the connection loop (LinkSpec, LinkFairSpec) *)

Min(a, b) == IF a <= b THEN a ELSE b

\* the phase of the link, read off the position of CloudControl.run: the
\* inner loop is Connected, the finally clause and the wait are Reconnecting
Phase(c) ==
    CASE c = "init" -> "Disconnected"
      [] c = "connect" -> "Connecting"
      [] c \in {"metrics", "awaitAck", "sleep60"} -> "Connected"
      [] c \in {"disconnect", "sleep5"} -> "Reconnecting"
      [] OTHER -> "Terminated"

\* C13: the phase changes only from Disconnected to Connecting, from
\* Connecting to Connected when the connect succeeded or to Reconnecting
\* when it failed, from Connected to Reconnecting when a publish failed, and
\* from Reconnecting to Connecting after the delay; a publish is issued only
\* in Connected.
C13_PhaseTransitions ==
    [][/\ Phase(cpc') # Phase(cpc) =>
            \/ Phase(cpc) = "Disconnected" /\ Phase(cpc') = "Connecting"
            \/ /\ Phase(cpc) = "Connecting" /\ Phase(cpc') = "Connected"
               /\ brokerUp
            \/ /\ Phase(cpc) = "Connecting" /\ Phase(cpc') = "Reconnecting"
               /\ ~brokerUp
            \/ /\ Phase(cpc) = "Connected" /\ Phase(cpc') = "Reconnecting"
               /\ cpc = "awaitAck" /\ ~brokerUp
            \/ /\ Phase(cpc) = "Reconnecting" /\ Phase(cpc') = "Connecting"
               /\ cpc = "sleep5" /\ sleepSecs > 0
       /\ published' # published => Phase(cpc) = "Connected"]_vars

\* Reconnecting for the second time in a row, after a publish had been issued
C13_Witness ==
    /\ cpc = "sleep5"
    /\ published # <<>>
    /\ Len(streak) >= 2

\* C14: the loop has no terminal state and no exception leaves it: after a
\* connect failure, a publish failure or a disconnect failure (the loop is
\* in its finally clause or waiting to reconnect) it connects again.
C14_AlwaysReconnects ==
    /\ [](Phase(cpc) # "Terminated")
    /\ [](Phase(cpc) = "Reconnecting" => <>(cpc = "connect"))

\* connecting again after a disconnect that failed, a publish failure behind
C14_Witness ==
    /\ cpc = "connect"
    /\ ~disconnectOk
    /\ reconnects >= 2
    /\ published # <<>>

\* C15: across consecutive failures the reconnect delay doubles from one
\* failure to the next up to max_delay: it never decreases and never
\* exceeds 60.
C15_DelayDoubles ==
    \A i \in DOMAIN streak :
        /\ streak[i] <= 60
        /\ i > 1 => /\ streak[i] >= streak[i - 1]
                    /\ streak[i] = Min(2 * streak[i - 1], 60)

\* C16: the first reconnect delay after a successful connect is the base
\* delay, whatever number of failures preceded that connect.
C16_DelayResetAfterConnect ==
    /\ streak # <<>> => streak[1] = reconnect_delay
    /\ (cpc = "sleep5" /\ Len(streak) = 1) => sleepSecs = reconnect_delay

\* two failed connects, then a successful one, one publish, and its failure:
\* the loop is in its first delay after the connect
C16_Witness ==
    /\ cpc = "sleep5"
    /\ reconnects = 3
    /\ Len(streak) = 1
    /\ Len(published) = 1
    /\ outages = 2

----------------------------------------------------------------------------
(* Claims about commands (DeviceSpec) *)

\* the messages published on a topic other than the measurements topic
StatusMessages == {i \in DOMAIN published : published[i] # TOPIC_MEASUREMENTS}

\* C18: every command that is handled, a failed one included, is answered
\* by exactly one status message published on the status topic: there are
\* as many status messages as handled commands.
C18_OneStatusPerCommand == Cardinality(StatusMessages) = requests

\* not JSON, not an object, or not a request for the rate FAST or SLOW
IsUnsupported(data) ==
    \/ data.kind # "object"
    \/ ~HasMember(data.members, "rate")
    \/ data.members.rate.type # "str"
    \/ UpperStr(data.members.rate.s) \notin {FAST, SLOW}

C20_IntervalApplied ==
    [][/\ (requests' # requests /\ response'.success) =>
            LET secs == IF UpperStr(request'.members.rate.s) = FAST
                        THEN 60 ELSE 1800
            IN  /\ intervalCfg'.seconds = secs
                /\ restartSec' = secs
       /\ (/\ cpc # "sleep60" /\ cpc' = "sleep60"
           /\ request.kind = "object"
           /\ response.success) =>
            sleepSecs' = intervalCfg.seconds]_vars

----------------------------------------------------------------------------
(* Claims about the decoders (DecodeSpec) *)

\* the text between prefix and suffix, once the frame is decoded and stripped
MagOf(f) == SubSeq(Strip(f), 3, Len(Strip(f)) - 2)

Framed(f) ==
    IsAscii(f) /\ StartsWith(Strip(f), Prefix) /\ EndsWith(Strip(f), Suffix)

Unsigned(m) == IF StartsWith(m, <<"-">>) THEN Tail(m) ELSE m

IntPart(m) == SubSeq(Unsigned(m), 1, FirstIndex(Unsigned(m), Dot) - 1)

FracPart(m) ==
    SubSeq(Unsigned(m), FirstIndex(Unsigned(m), Dot) + 1, Len(Unsigned(m)))

\* [-]digits.digits
IsFixedPoint(m) ==
    /\ FirstIndex(Unsigned(m), Dot) > 0
    /\ IntPart(m) # <<>> /\ AllDigits(IntPart(m))
    /\ FracPart(m) # <<>> /\ AllDigits(FracPart(m))

\* [-]digits[.digits]
IsPlainNumber(m) ==
    \/ IsFixedPoint(m)
    \/ Unsigned(m) # <<>> /\ AllDigits(Unsigned(m))

\* the digits of a fixed-point magnitude as a number is written: the sign,
\* the integer part without its leading zeros, the fraction as it stands
CanonText(m) ==
    (IF StartsWith(m, <<"-">>) THEN <<"-">> ELSE <<>>)
        \o NatStr(DigitsVal(IntPart(m))) \o <<".">> \o FracPart(m)

ExactValue(m) ==
    Num(StartsWith(m, <<"-">>), DigitsVal(IntPart(m) \o FracPart(m)),
        0 - Len(FracPart(m)))

\* C8: a frame <prefix>[-]digits.digits kg decodes to the exact decimal of
\* its digits, negated when '-' is present, and the weight of the published
\* message is written with the same decimal digits.
C8_ExactDigits ==
    (Framed(frame) /\ IsFixedPoint(MagOf(frame))) =>
        /\ serialOut # NotDecoded =>
              serialOut = Weight(ExactValue(MagOf(frame)))
        /\ payloadOut # NoPayload =>
              /\ payloadOut.status = "float"
              /\ FloatRepr(payloadOut.val) = CanonText(MagOf(frame))

\* C9: a frame is accepted as a reading, by either decoder, only if it is
\* <prefix>[-]digits[.digits]kg.
C9_AcceptsOnlyPattern ==
    (serialOut.status = "weight" \/ notifyOut.status = "weight") =>
        Framed(frame) /\ IsPlainNumber(MagOf(frame))

HasDigit(m) == \E i \in DOMAIN m : m[i] \in Digit

\* without prefix, without suffix, with a non-ASCII byte, empty, or with a
\* magnitude that is empty or holds no digit at all
IsMalformed(f) == ~Framed(f) \/ ~HasDigit(MagOf(f))

\* C10: a malformed frame is a decode failure for that frame in either
\* decoder: logged as unexpected or as a decoding error, never accepted.
C10_MalformedRejected ==
    IsMalformed(frame) =>
        /\ serialOut.status \in {"pending", "unexpected", "error"}
        /\ notifyOut.status \in {"pending", "unexpected", "error"}

----------------------------------------------------------------------------
(* Claims about the sampling interval alone (IntervalSpec) *)

\* the last request was applied: the script ran and exited with status 0
LastApplied ==
    \/ request.kind = "cli" /\ response.code = 0
    \/ request.kind = "object" /\ response.success

\* the command line of the last request that was applied
LastArgs == IF request.kind = "cli" THEN request.args ELSE PostArgs(request).cmd

\* C21: applying the same sampling-rate change twice in a row leaves the
\* end state of applying it once (interval type and seconds in interval.json,
\* RestartSec of the service timer), and the second application exits with
\* status 0: from every state, for every change, and for the change that was
\* just applied.
C21_RepeatIsIdempotent ==
    /\ \A args \in CliArgs :
         LET once == SetScaleInterval(args, "ok", intervalCfg, restartSec)
             twice == SetScaleInterval(args, "ok", once.cfg, once.rs)
         IN  once.code = 0 =>
                 /\ twice.code = 0
                 /\ twice.cfg = once.cfg
                 /\ twice.rs = once.rs
    /\ LastApplied =>
         SetScaleInterval(LastArgs, "ok", intervalCfg, restartSec) =
             [code |-> 0, cfg |-> intervalCfg, rs |-> restartSec]

\* a custom interval of 10 s was applied from the command line, after SLOW
\* had been set from the admin page
C21_Witness ==
    /\ requests = 1
    /\ request = [kind |-> "cli", args |-> ArgSeconds(min_seconds)]
    /\ response = [code |-> 0]
    /\ intervalCfg = [interval |-> "CUSTOM", seconds |-> min_seconds]
    /\ restartSec = min_seconds

\* the script ran for the last request and exited with a status other than 0
ScriptFailed ==
    IF request.kind = "cli"
    THEN response.code # 0
    ELSE response = ErrorResponse("Failed to update interval")

\* C29: at the end of every run of set_scale_interval the seconds stored in
\* interval.json equal RestartSec of the override file whenever both files
\* exist, and a run that exits with a status other than 0 leaves both files
\* as they were.
C29_FilesAgree ==
    [][/\ (intervalCfg' # NoInterval /\ restartSec' # 0) =>
            intervalCfg'.seconds = restartSec'
       /\ ScriptFailed' =>
            (intervalCfg' = intervalCfg /\ restartSec' = restartSec)]_vars

\* a custom value outside 10..86400 on the command line, or a body of the
\* admin page's POST that does not ask for FAST or SLOW
IsInvalidRequest(req) ==
    IF req.kind = "cli"
    THEN /\ req.args.mode = "seconds"
         /\ (req.args.seconds < 10 \/ req.args.seconds > 86400)
    ELSE IsUnsupported(req)

\* the seconds a request asks for
RequestedSeconds(req) ==
    LET args == IF req.kind = "cli" THEN req.args ELSE PostArgs(req).cmd
    IN  CASE args.mode = "fast" -> 60
          [] args.mode = "slow" -> 1800
          [] OTHER -> args.seconds

\* the last request was answered with an error
Refused ==
    IF request.kind = "cli" THEN response.code # 0 ELSE ~response.success

\* C30: a request outside FAST, SLOW and a custom value within 10..86400 s
\* is answered with an error and changes neither the service timer nor the
\* stored interval; whenever the timer or the stored interval changes, the
\* request was one of those and the new value is 60 s, 1800 s or the custom
\* value.
C30_OnlyValidApplied ==
    [][/\ (request'.kind # "none" /\ IsInvalidRequest(request')) =>
            /\ Refused'
            /\ intervalCfg' = intervalCfg
            /\ restartSec' = restartSec
       /\ (intervalCfg' # intervalCfg \/ restartSec' # restartSec) =>
            /\ ~IsInvalidRequest(request')
            /\ restartSec' = RequestedSeconds(request')
            /\ \/ restartSec' \in {60, 1800}
               \/ (restartSec' >= 10 /\ restartSec' <= 86400)
            /\ intervalCfg' # intervalCfg =>
                 intervalCfg'.seconds = restartSec']_vars

\* FAST was in place when a custom value of 86401 s was refused
C30_Witness ==
    /\ request = [kind |-> "cli", args |-> ArgSeconds(max_seconds + 1)]
    /\ response = [code |-> 1]
    /\ intervalCfg = [interval |-> "FAST", seconds |-> fast_seconds]
    /\ restartSec = fast_seconds

----------------------------------------------------------------------------
(* The two decoders side by side (DecodeSpec) *)

\* C27: the serial decoder and the notification decoder agree on every
\* frame: both accept it and yield the same decimal, or both reject it.
C27_DecodersAgree ==
    (serialOut # NotDecoded /\ notifyOut # NotDecoded) =>
        /\ (serialOut.status = "weight") = (notifyOut.status = "weight")
        /\ serialOut.status = "weight" => serialOut.val = notifyOut.val

----------------------------------------------------------------------------
(* Claims about the start of the two programs (ProgramSpec) *)

HasField(k) == k \in DOMAIN config.data

\* the connection type main uses: serial when --device rs232 is given or
\* connection_type is rs232, Bluetooth otherwise; none when neither says
UsedType ==
    IF argDevice = RS232 THEN RS232
    ELSE IF ~HasField("connection_type") THEN NoDevice
    ELSE IF config.data["connection_type"] = RS232 THEN RS232
    ELSE BLUETOOTH

\* config.json is missing, or lacks a member the used connection type needs
ConfigIncomplete ==
    \/ config.file = "missing"
    \/ /\ config.file = "json"
       /\ \/ UsedType = RS232
             /\ ~(HasField("serial_port") /\ HasField("baud_rate"))
          \/ UsedType = BLUETOOTH /\ ~HasField("bluetooth_mac")

\* C22: when config.json is missing, or a member required for the connection
\* type that is used is absent (serial: serial_port and baud_rate; Bluetooth:
\* bluetooth_mac), scale_reader exits with a status other than 0 before a
\* connect to the broker is attempted and before the sensor is read.
C22_FailsBeforeConnect ==
    (program = "scale_reader" /\ ConfigIncomplete) =>
        /\ ~connectTried
        /\ ~sensorRead
        /\ spc = "exited" => exitStatus = 1

\* C23: no connect is attempted, by scale_reader or by CloudControl.run,
\* unless the certificate, the private key and the root CA were all found to
\* exist before; with a file missing the program exits with status 1 and no
\* connect was attempted.
C23_NoConnectWithoutCredentials ==
    /\ (connectTried \/ cpc # "init") => (verified /\ certs = AllCerts)
    /\ certs # AllCerts =>
         /\ spc \in {"start", "client", "verify", "exited"}
         /\ spc = "exited" => exitStatus = 1

\* the root CA is missing: scale_reader loaded its configuration and exited
\* with status 1 without a connect
C23_Witness ==
    /\ program = "scale_reader"
    /\ certs = {"cert", "key"}
    /\ config.file = "json"
    /\ required_fields(argDevice) \subseteq DOMAIN config.data
    /\ spc = "exited"
    /\ exitStatus = 1
    /\ ~connectTried

Programs == {"scale_reader", "cloud_control"}

\* the device identifier a program is configured with
ConfiguredId(prog) ==
    IF prog = "scale_reader" THEN config.data["device_id"]
    ELSE config.data["scale_id"]

ClientIdOf(prog, id) ==
    IF prog = "scale_reader" THEN ReaderClientId(id) ELSE CloudClientId(id)

\* C24: every broker connection is built before it is opened, with
\* clean_session false and a client identifier that is a function of the
\* configured device identifier alone, and no other device identifier gives
\* that client identifier, in either program.
C24_DurableSessionInjectiveId ==
    /\ (connectTried \/ cpc # "init") => session # NoSession
    /\ session # NoSession =>
         /\ session.clean_session = FALSE
         /\ session.client_id = ClientIdOf(program, ConfiguredId(program))
         /\ \A prog \in Programs : \A other \in Ids :
              other # ConfiguredId(program) =>
                  ClientIdOf(prog, other) # session.client_id

\* scale_reader, configured as device "7a", has connected
C24_Witness ==
    /\ program = "scale_reader"
    /\ HasField("device_id")
    /\ config.data["device_id"] = <<"7", "a">>
    /\ opened
    /\ session.client_id = <<"d", "e", "v", "i", "c", "e", "-", "7", "a">>

\* CloudControl.run holds a connection that connect() opened
Linked == cpc \in {"metrics", "awaitAck", "sleep60"}

\* C28: in scale_reader.main every successful connect is followed by a
\* disconnect before the process exits, on every path; in CloudControl.run
\* the connected part of the loop is left only into the disconnect of the
\* finally clause, and a connect is attempted only at the start or after
\* that disconnect and the sleep that follows it.
C28_DisconnectAfterConnect ==
    [][/\ spc' = "exited" => ~opened'
       /\ (Linked /\ ~Linked') => cpc' = "disconnect"
       /\ cpc = "disconnect" => cpc' \in {"disconnect", "sleep5"}
       /\ cpc' = "connect" => cpc \in {"connect", "init", "sleep5"}]_vars

\* scale_reader connected, the sensor read or the publish failed, and the
\* process exited with status 1 after the disconnect
C28_Witness ==
    /\ program = "scale_reader"
    /\ spc = "exited"
    /\ connectTried
    /\ sensorRead
    /\ ~opened
    /\ exitStatus = 1

----------------------------------------------------------------------------
(* Claims about the Bluetooth read (BluetoothSpec) *)

\* a pass of the connection loop is under way
InAttempt ==
    btpc \in {"wait", "except", "finallyNext", "finallyReturn", "finallyRaise"}

\* what C26 says but for the length of the wait
BoundedAttempts ==
    /\ InAttempt => btAttempt < 3
    /\ btAttempt <= 3 /\ scans <= 3
    /\ btpc \in {"attempt", "done"} => peripheral \in {"None", "disconnected"}
    /\ btpc = "done" =>
         \/ btResult = Raised
         \/ btResult.status = "weight" /\ btResult.val # NoDecimal

----------------------------------------------------------------------------
(* Claims about concurrent writes to the store (StoreSpec) *)

\* the files open for writing
InFlight == {FileName(wts[w]) : w \in {v \in Writers : wpc[v] = "open"}}

====
